---- MODULE Spec2Model ----
(***************************************************************************)
(* Model of dungeon.py: Maze.generate (randomized-walk spanning tree with  *)
(* random restart), Maze.sparsify (dead-end pruning rounds) and make_maze. *)
(* A cell is the tuple <<x, y>>; a mask is a Python int.                   *)
(***************************************************************************)
EXTENDS Integers, Sequences, FiniteSets

VARIABLES width, height, pc, unvisited, visited, current_cell, assigned,
          sparseness, sp_pass, items, todo,
          gen,        \* history: the mapping as generate() returned it
          total,      \* history: the passes run so far, over all calls
          one,        \* history: the mapping of ONE call sparsify(total) on
          one_items   \*   gen that iterates every pass in the same order

vars == <<width, height, pc, unvisited, visited, current_cell, assigned,
          sparseness, sp_pass, items, todo, gen, total, one, one_items>>

(* Bounds of the exploration. *)
MaxCells == 8
MaxPasses == 3

(* The value of a local that is not bound, or of an empty dict. *)
None == <<>>
EmptyDict == [c \in {} |-> 0]

(* range(height) x range(width): the keys of unvisited, line 48-49. *)
Cells(w, h) == {<<x, y>> : x \in 0..(w - 1), y \in 0..(h - 1)}

(* Python's m & b for a one-bit b, on two's complement ints of any sign. *)
HasBit(m, b) == (m \div b) % 2 = 1

(* Line 82 written with = instead of |=. *)
BitOr_assign(m, b) == b

(* Python's m | b for a one-bit b (line 82). *)
BitOr(m, b) == IF HasBit(m, b) THEN m ELSE m + b

(* d[k] = v on a dict (insert or overwrite). *)
SetItem(d, k, v) == [c \in (DOMAIN d) \cup {k} |-> IF c = k THEN v ELSE d[c]]

(* exits with the mirror of EAST mistyped as EAST. *)
exits_east_unmirrored ==
    << <<0, 1, 1, 2>>, <<0, -1, 2, 1>>, <<1, 0, 4, 4>>, <<-1, 0, 8, 4>> >>

(* The default argument exits of random_neighbour: xd, yd, my_exit, your_exit. *)
exits == << <<0, 1, 1, 2>>, <<0, -1, 2, 1>>, <<1, 0, 4, 8>>, <<-1, 0, 8, 4>> >>

(* The outcomes of sample(exits, 4): the orders of the four entries. *)
Samples == {p \in [1..4 -> 1..4] : \A i, j \in 1..4 : p[i] = p[j] => i = j}

(* The for loop of random_neighbour from position i of the sampled order:  *)
(* the first entry whose neighbour is a key of unvisited, or None.         *)
RECURSIVE scan_from(_, _, _, _)
scan_from(cell, unv, p, i) ==
    IF i > 4 THEN None
    ELSE LET e == exits[p[i]]
             ncell == <<e[1] + cell[1], e[2] + cell[2]>>
         IN IF ncell \in unv THEN <<ncell, <<e[3], e[4]>> >>
            ELSE scan_from(cell, unv, p, i + 1)

random_neighbour(cell, unv, p) == scan_from(cell, unv, p, 1)

(* single_corridor with the offsets of SOUTH and NORTH exchanged. *)
single_corridor_flipped ==
    [m \in {1, 2, 4, 8} |->
        CASE m = 1 -> <<0, -1, -2>>
          [] m = 2 -> <<0, 1, -1>>
          [] m = 4 -> <<1, 0, -8>>
          [] m = 8 -> <<-1, 0, -4>>]

(* The table single_corridor of sparsify: mask -> nxd, nyd, diff. *)
single_corridor ==
    [m \in {1, 2, 4, 8} |->
        CASE m = 1 -> <<0, 1, -2>>
          [] m = 2 -> <<0, -1, -1>>
          [] m = 4 -> <<1, 0, -8>>
          [] m = 8 -> <<-1, 0, -4>>]

(* The dimensions a caller may pass, bad ones included. *)
Dims == (-1)..MaxCells

Init ==
    /\ width \in Dims
    /\ height \in Dims
    /\ (width >= 1 /\ height >= 1) => width * height <= MaxCells
    /\ pc = "constructed"
    /\ unvisited = {}
    /\ visited = EmptyDict
    /\ current_cell = None
    /\ assigned = FALSE
    /\ sparseness = 0
    /\ sp_pass = 0
    /\ items = EmptyDict
    /\ todo = {}
    /\ gen = EmptyDict
    /\ total = 0
    /\ one = EmptyDict
    /\ one_items = EmptyDict

(* generate() with self.visited bound to the dict before the start cell   *)
(* is drawn.                                                               *)
GenerateFail_assigned_early ==
    /\ pc = "constructed"
    /\ (width - 1 < 0 \/ height - 1 < 0)
    /\ pc' = "ValueError"
    /\ unvisited' = Cells(width, height)
    /\ assigned' = TRUE
    /\ UNCHANGED <<width, height, visited, current_cell,
                   sparseness, sp_pass, items, todo, gen, total, one,
                   one_items>>

(* random_cell() raises ValueError (randint over an empty range) when      *)
(* width - 1 < 0 or height - 1 < 0; generate() is left at line 70.         *)
GenerateFail ==
    /\ pc = "constructed"
    /\ (width - 1 < 0 \/ height - 1 < 0)
    /\ pc' = "ValueError"
    /\ unvisited' = Cells(width, height)
    /\ UNCHANGED <<width, height, visited, current_cell, assigned,
                   sparseness, sp_pass, items, todo, gen, total, one, one_items>>

(* Lines 47-71: build unvisited, draw the start cell, visit(cell, 0). *)
GenerateStart ==
    /\ pc = "constructed"
    /\ width - 1 >= 0 /\ height - 1 >= 0
    /\ \E x \in 0..(width - 1), y \in 0..(height - 1) :
          /\ current_cell' = <<x, y>>
          /\ unvisited' = Cells(width, height) \ {<<x, y>>}
          /\ visited' = SetItem(EmptyDict, <<x, y>>, 0)
    /\ pc' = "loop"
    /\ UNCHANGED <<width, height, assigned, sparseness, sp_pass, items,
                   todo, gen, total, one, one_items>>

(* Carve with a visit() that leaves the cell in unvisited. *)
Carve_keeps_unvisited ==
    /\ pc = "loop"
    /\ Cardinality(unvisited) > 0
    /\ \E p \in Samples :
          LET neighbour == random_neighbour(current_cell, unvisited, p)
          IN /\ neighbour # None
             /\ LET cell == neighbour[1]
                    my_exit == neighbour[2][1]
                    your_exit == neighbour[2][2]
                IN /\ visited' = SetItem(
                          [visited EXCEPT ![current_cell] = BitOr(@, my_exit)],
                          cell, your_exit)
                   /\ unvisited' = unvisited
                   /\ current_cell' = cell
    /\ UNCHANGED <<width, height, pc, assigned, sparseness, sp_pass, items,
                   todo, gen, total, one, one_items>>

(* Lines 73-74, 81-84: a neighbour was found; carve and move. *)
Carve ==
    /\ pc = "loop"
    /\ Cardinality(unvisited) > 0
    /\ \E p \in Samples :
          LET neighbour == random_neighbour(current_cell, unvisited, p)
          IN /\ neighbour # None
             /\ LET cell == neighbour[1]
                    my_exit == neighbour[2][1]
                    your_exit == neighbour[2][2]
                IN /\ visited' = SetItem(
                          [visited EXCEPT ![current_cell] = BitOr(@, my_exit)],
                          cell, your_exit)
                   /\ unvisited' = unvisited \ {cell}
                   /\ current_cell' = cell
    /\ UNCHANGED <<width, height, pc, assigned, sparseness, sp_pass, items,
                   todo, gen, total, one, one_items>>

(* Lines 73-76: random_neighbour returned None; enter the redraw loop. *)
Stuck ==
    /\ pc = "loop"
    /\ Cardinality(unvisited) > 0
    /\ \E p \in Samples :
          random_neighbour(current_cell, unvisited, p) = None
    /\ pc' = "restart"
    /\ UNCHANGED <<width, height, unvisited, visited, current_cell, assigned,
                   sparseness, sp_pass, items, todo, gen, total, one, one_items>>

(* The redraw drawing from ranges one short, rnd(0, w - 1) and             *)
(* rnd(0, h - 1): the last column and the last row are never drawn.        *)
Restart_narrow ==
    /\ pc = "restart"
    /\ \E x \in 0..(width - 2), y \in 0..(height - 2) :
          /\ current_cell' = <<x, y>>
          /\ pc' = IF <<x, y>> \in DOMAIN visited THEN "loop" ELSE "restart"
    /\ UNCHANGED <<width, height, unvisited, visited, assigned, sparseness,
                   sp_pass, items, todo, gen, total, one, one_items>>

(* The redraw loop leaving on its first draw, visited or not. *)
Restart_unchecked ==
    /\ pc = "restart"
    /\ \E x \in 0..(width - 1), y \in 0..(height - 1) :
          /\ current_cell' = <<x, y>>
          /\ pc' = "loop"
    /\ UNCHANGED <<width, height, unvisited, visited, assigned, sparseness,
                   sp_pass, items, todo, gen, total, one, one_items>>

(* Lines 76-79: one draw of random_cell(); leave the loop when it is in    *)
(* visited.                                                                *)
Restart ==
    /\ pc = "restart"
    /\ \E x \in 0..(width - 1), y \in 0..(height - 1) :
          /\ current_cell' = <<x, y>>
          /\ pc' = IF <<x, y>> \in DOMAIN visited THEN "loop" ELSE "restart"
    /\ UNCHANGED <<width, height, unvisited, visited, assigned, sparseness,
                   sp_pass, items, todo, gen, total, one, one_items>>

(* Lines 73, 86: the loop ends, self.visited = visited, generate returns   *)
(* and its locals go away.                                                 *)
GenerateReturn ==
    /\ pc = "loop"
    /\ Cardinality(unvisited) = 0
    /\ assigned' = TRUE
    /\ gen' = visited
    /\ one' = visited
    /\ current_cell' = None
    /\ pc' = "generated"
    /\ UNCHANGED <<width, height, unvisited, visited, sparseness, sp_pass,
                   items, todo, total, one_items>>

(* The list built once, before the first pass, and iterated by each pass. *)
round_items_hoisted(v, old, pass) == IF pass = 0 THEN v ELSE old

(* Line 97, visited.items(): the list a pass iterates is built from the   *)
(* dict as it is when the pass begins (old is the previous pass's list,    *)
(* pass the index of this one).                                            *)
round_items(v, old, pass) == v

(* Lines 100-102 for one pair (cell, mask) of the list, on the dict v:     *)
(* the dict afterwards, and whether line 102 raised KeyError.              *)
prune(v, cell, mask) ==
    LET nxd == single_corridor[mask][1]
        nyd == single_corridor[mask][2]
        diff == single_corridor[mask][3]
        ncell == <<cell[1] + nxd, cell[2] + nyd>>
        zeroed == [v EXCEPT ![cell] = 0]
    IN IF ncell \in DOMAIN zeroed
       THEN [dict |-> [zeroed EXCEPT ![ncell] = @ + diff], raised |-> FALSE]
       ELSE [dict |-> zeroed, raised |-> TRUE]

(* Lines 98-102 on the history copy: the same pair position, its own list. *)
one_step(v, its, cell) ==
    IF cell \in DOMAIN its /\ its[cell] \in DOMAIN single_corridor
    THEN prune(v, cell, its[cell]).dict
    ELSE v

(* make_maze line 108, or a later call on the same maze: sparsify starts,  *)
(* binding visited to self.visited (line 94).                              *)
SparsifyCall ==
    /\ pc \in {"generated", "returned"}
    /\ assigned
    /\ total < MaxPasses
    /\ \E k \in 0..(MaxPasses - total) :
          sparseness' = k
    /\ sp_pass' = 0
    /\ pc' = "passes"
    /\ UNCHANGED <<width, height, unvisited, visited, current_cell, assigned,
                   items, todo, gen, total, one, one_items>>

(* The pass loop running range(sparseness + 1). *)
RoundStart_one_more ==
    /\ pc = "passes"
    /\ sp_pass <= sparseness
    /\ items' = round_items(visited, items, sp_pass)
    /\ one_items' = round_items(one, one_items, total)
    /\ todo' = DOMAIN visited
    /\ pc' = "round"
    /\ UNCHANGED <<width, height, unvisited, visited, current_cell, assigned,
                   sparseness, sp_pass, gen, total, one>>

(* Lines 96-97: another pass of range(sparseness); visited.items() copies  *)
(* the pairs of the dict into a list, in the dict's order.                 *)
RoundStart ==
    /\ pc = "passes"
    /\ sp_pass < sparseness
    /\ items' = round_items(visited, items, sp_pass)
    /\ one_items' = round_items(one, one_items, total)
    /\ todo' = DOMAIN visited
    /\ pc' = "round"
    /\ UNCHANGED <<width, height, unvisited, visited, current_cell, assigned,
                   sparseness, sp_pass, gen, total, one>>

(* Lines 97-99: the next pair of the list has a mask that is no key of     *)
(* single_corridor; continue.                                              *)
Skip ==
    /\ pc = "round"
    /\ \E cell \in todo :
          /\ items[cell] \notin DOMAIN single_corridor
          /\ todo' = todo \ {cell}
          /\ one' = one_step(one, one_items, cell)
    /\ UNCHANGED <<width, height, pc, unvisited, visited, current_cell,
                   assigned, sparseness, sp_pass, items, gen, total,
                   one_items>>

(* Lines 97-102: the next pair of the list is a single-corridor cell:      *)
(* zero it and add diff to the neighbour's mask (KeyError when the         *)
(* neighbour is no key of the dict).                                       *)
Prune ==
    /\ pc = "round"
    /\ \E cell \in todo :
          /\ items[cell] \in DOMAIN single_corridor
          /\ LET r == prune(visited, cell, items[cell])
             IN /\ visited' = r.dict
                /\ todo' = IF r.raised THEN todo ELSE todo \ {cell}
                /\ pc' = IF r.raised THEN "KeyError" ELSE pc
          /\ one' = one_step(one, one_items, cell)
    /\ UNCHANGED <<width, height, unvisited, current_cell, assigned,
                   sparseness, sp_pass, items, gen, total, one_items>>

(* Line 97 exhausted: the pass is over. *)
RoundEnd ==
    /\ pc = "round"
    /\ todo = {}
    /\ sp_pass' = sp_pass + 1
    /\ total' = total + 1
    /\ pc' = "passes"
    /\ UNCHANGED <<width, height, unvisited, visited, current_cell, assigned,
                   sparseness, items, todo, gen, one, one_items>>

(* Line 96 exhausted: sparsify returns. *)
SparsifyReturn ==
    /\ pc = "passes"
    /\ ~(sp_pass < sparseness)
    /\ pc' = "returned"
    /\ UNCHANGED <<width, height, unvisited, visited, current_cell, assigned,
                   sparseness, sp_pass, items, todo, gen, total, one,
                   one_items>>

Next ==
    \/ GenerateFail
    \/ GenerateStart
    \/ Carve
    \/ Stuck
    \/ Restart
    \/ GenerateReturn
    \/ SparsifyCall
    \/ RoundStart
    \/ Skip
    \/ Prune
    \/ RoundEnd
    \/ SparsifyReturn

Spec == Init /\ [][Next]_vars

TypeOK ==
    /\ pc \in {"constructed", "ValueError", "loop", "restart", "generated",
               "passes", "round", "returned", "KeyError"}
    /\ unvisited \subseteq Cells(width, height)

(***************************************************************************)
(* The graph a mapping encodes.                                            *)
(***************************************************************************)
Grid == Cells(width, height)

(* The cell next to cell in the direction of the entry e of exits. *)
Toward(cell, e) == <<cell[1] + e[1], cell[2] + e[2]>>

(* The undirected edges implied by the exit bits of the mapping v. *)
Links(v) ==
    {{ai[1], Toward(ai[1], exits[ai[2]])} :
        ai \in {bj \in (DOMAIN v) \X (1..4) :
                    HasBit(v[bj[1]], exits[bj[2]][3])}}

RECURSIVE Grow(_, _)
Grow(S, E) ==
    LET N == S \cup {b \in UNION E : \E a \in S : {a, b} \in E}
    IN IF N = S THEN S ELSE Grow(N, E)

Connected(nodes, E) ==
    \A s \in nodes : Grow({s}, E) = nodes

RECURSIVE Acyclic(_)
Acyclic(E) ==
    LET Degree(n) == Cardinality({e \in E : n \in e})
        Hanging == {e \in E : \E n \in e : Degree(n) = 1}
    IN IF E = {} THEN TRUE
       ELSE IF Hanging = {} THEN FALSE
       ELSE Acyclic(E \ Hanging)

Mirrored(v) ==
    \A a \in DOMAIN v : \A i \in 1..4 :
        LET b == Toward(a, exits[i])
        IN b \in DOMAIN v =>
              (HasBit(v[a], exits[i][3]) <=> HasBit(v[b], exits[i][4]))

Bits(m) == Cardinality({b \in {1, 2, 4, 8} : HasBit(m, b)})

(***************************************************************************)
(* C1: when generate() finishes, the mapping has one entry per grid cell   *)
(* and the edges implied by the exit bits form a spanning tree of the      *)
(* grid: connected, acyclic, width*height - 1 edges.                       *)
(***************************************************************************)
C1_SpanningTree ==
    pc = "generated" =>
        /\ DOMAIN visited = Grid
        /\ unvisited = {}
        /\ UNION Links(visited) \subseteq Grid
        /\ Cardinality(Links(visited)) = width * height - 1
        /\ Connected(Grid, Links(visited))
        /\ Acyclic(Links(visited))

C1_Witness ==
    /\ pc = "generated"
    /\ width = 4 /\ height = 2
    /\ \E c \in Grid : Bits(visited[c]) = 3

(***************************************************************************)
(* C2: mirrored-edge invariant. After generate() and after every sparsify  *)
(* round, a cell has the exit bit toward an adjacent cell iff that cell    *)
(* has the opposite bit.                                                   *)
(***************************************************************************)
C2_MirroredAlways ==
    pc \in {"generated", "passes", "returned"} => Mirrored(visited)

(***************************************************************************)
(* C3: after generate() and after any number of sparsify rounds every      *)
(* mask is a 4-bit value, 0..15: no mask goes below 0.                     *)
(***************************************************************************)
C3_MaskRange ==
    pc \in {"generated", "passes", "returned"} =>
        \A c \in DOMAIN visited : visited[c] \in 0..15

(***************************************************************************)
(* C4: on the 2 x 1 grid generate() yields one mirrored EAST/WEST edge,    *)
(* one bit per cell, and sparsify(1) then leaves both masks 0, whichever   *)
(* cell the round takes first.                                             *)
(***************************************************************************)
C4_TwoByOne ==
    (width = 2 /\ height = 1) =>
        /\ pc = "generated" =>
              /\ visited[<<0, 0>>] = 4
              /\ visited[<<1, 0>>] = 8
        /\ (pc = "returned" /\ total = 1) =>
              /\ visited[<<0, 0>>] = 0
              /\ visited[<<1, 0>>] = 0

(***************************************************************************)
(* C5: in every state of generate() and after any number of sparsify       *)
(* rounds no cell has an exit bit set toward a cell outside the grid.      *)
(***************************************************************************)
C5_NoExitOutside ==
    pc \in {"loop", "restart", "generated", "passes", "returned"} =>
        \A c \in DOMAIN visited : \A i \in 1..4 :
            HasBit(visited[c], exits[i][3]) => Toward(c, exits[i]) \in Grid

(***************************************************************************)
(* C6: sparsify never reads or writes a key that is missing (no KeyError)  *)
(* and never adds or removes a key: the mapping's cells stay the grid's.   *)
(***************************************************************************)
C6_KeysStay ==
    /\ pc # "KeyError"
    /\ assigned => DOMAIN visited = Grid

C6_Witness ==
    /\ pc = "returned"
    /\ total = 2
    /\ width = 2 /\ height = 2
    /\ \A c \in Grid : gen[c] # 0 /\ visited[c] <= 0

(***************************************************************************)
(* C7: sparsify(0) runs no round and leaves every mask as generate()       *)
(* produced it.                                                            *)
(***************************************************************************)
C7_ZeroPasses ==
    (pc \in {"passes", "round", "returned"} /\ sparseness = 0 /\ total = 0) =>
        /\ pc # "round"
        /\ visited = gen

C7_Witness ==
    /\ pc = "returned"
    /\ sparseness = 0 /\ total = 0
    /\ \E c \in Grid : Bits(visited[c]) = 1

(***************************************************************************)
(* C8: sparsify(k) followed by sparsify(1) gives the mapping one call      *)
(* sparsify(k + 1) gives on the same grid with the same traversal order    *)
(* in every round (more generally: the calls made so far give what one     *)
(* call with the sum of their pass counts gives).                          *)
(***************************************************************************)
C8_SplitCalls ==
    pc = "returned" => visited = one

C8_Witness ==
    /\ pc = "returned"
    /\ sparseness = 1 /\ total = 3
    /\ visited # items
    /\ visited # gen

(***************************************************************************)
(* C10: with width <= 0 or height <= 0 generate() fails drawing the start  *)
(* cell: no cell is ever visited, self.visited is never assigned and       *)
(* sparsify never runs.                                                    *)
(***************************************************************************)
C10_BadDimensions ==
    (width <= 0 \/ height <= 0) =>
        /\ pc \in {"constructed", "ValueError"}
        /\ ~assigned
        /\ DOMAIN visited = {}
        /\ current_cell = None
        /\ total = 0

C10_Witness ==
    /\ pc = "ValueError"
    /\ width >= 1 /\ height <= 0

(***************************************************************************)
(* generate() alone: the steps of lines 46-86, and the same with the       *)
(* fairness of its random source. randint is uniform, so a redraw that can *)
(* land on a visited cell with an unvisited neighbour infinitely often     *)
(* does so (strong fairness); every other step is taken once it stays      *)
(* possible.                                                               *)
(***************************************************************************)
GenNext ==
    \/ GenerateFail
    \/ GenerateStart
    \/ Carve
    \/ Stuck
    \/ Restart
    \/ GenerateReturn

GenSpec == Init /\ [][GenNext]_vars

(* The visited cells from which random_neighbour finds a cell. *)
Frontier ==
    {c \in DOMAIN visited : \E i \in 1..4 : Toward(c, exits[i]) \in unvisited}

GenFair ==
    /\ Init /\ [][GenNext]_vars
    /\ WF_vars(GenerateStart)
    /\ WF_vars(Carve)
    /\ WF_vars(Stuck)
    /\ WF_vars(Restart)
    /\ WF_vars(GenerateReturn)
    /\ SF_vars(Restart /\ current_cell' \in Frontier)

(***************************************************************************)
(* C11: for width, height >= 1 generate() terminates under a fair random   *)
(* source: unvisited eventually is empty and generate() returns; and while *)
(* unvisited is non-empty some visited cell has an unvisited neighbour in  *)
(* the grid, so the walk is never stuck for good.                          *)
(***************************************************************************)
C11_Terminates ==
    /\ [](pc \in {"loop", "restart"} /\ unvisited # {} => Frontier # {})
    /\ (width >= 1 /\ height >= 1) ~> (pc = "generated" /\ unvisited = {})

C11_Witness ==
    /\ pc = "restart"
    /\ current_cell \notin DOMAIN visited

(***************************************************************************)
(* C14: at every iteration of the generation loop visited and unvisited    *)
(* are disjoint and together are the grid; a cell only ever moves from     *)
(* unvisited to visited; the current cell is in visited.                   *)
(***************************************************************************)
C14_Moves ==
    pc \in {"loop", "restart"} =>
        /\ DOMAIN visited \subseteq DOMAIN visited'
        /\ unvisited' \subseteq unvisited
        /\ (DOMAIN visited') \ (DOMAIN visited) = unvisited \ unvisited'
        /\ Cardinality(unvisited \ unvisited') <= 1

C14_Parts ==
    pc \in {"loop", "restart"} =>
        /\ (DOMAIN visited) \cap unvisited = {}
        /\ (DOMAIN visited) \cup unvisited = Grid
        /\ pc = "loop" => current_cell \in DOMAIN visited

C14_Partition == []C14_Parts /\ [][C14_Moves]_vars

C14_Witness ==
    /\ pc = "loop"
    /\ width = 3 /\ height = 2
    /\ Cardinality(unvisited) = 3
    /\ Cardinality(DOMAIN visited) = 3

(***************************************************************************)
(* C15: a carve step adds exactly one edge, from the current cell to an    *)
(* adjacent cell of the grid that was unvisited: it sets the exit bit on   *)
(* the current cell and the mirrored bit on the neighbour, touches no      *)
(* other mask and makes the neighbour current. So at every iteration the   *)
(* edges among the visited cells are a tree of |visited| - 1 edges.        *)
(***************************************************************************)
C15_Carves ==
    (pc = "loop" /\ visited' # visited) =>
        \E i \in 1..4 :
            LET cur == current_cell
                n == Toward(current_cell, exits[i])
            IN /\ n \in Grid
               /\ n \in unvisited
               /\ n \notin DOMAIN visited
               /\ cur \in DOMAIN visited
               /\ current_cell' = n
               /\ unvisited' = unvisited \ {n}
               /\ DOMAIN visited' = (DOMAIN visited) \cup {n}
               /\ \A b \in {1, 2, 4, 8} :
                     HasBit(visited'[cur], b) <=>
                        (HasBit(visited[cur], b) \/ b = exits[i][3])
               /\ visited'[n] = exits[i][4]
               /\ \A c \in (DOMAIN visited) \ {cur} :
                     visited'[c] = visited[c]
               /\ {cur, n} \notin Links(visited)
               /\ Links(visited') = Links(visited) \cup {{cur, n}}

C15_Tree ==
    pc \in {"loop", "restart"} =>
        /\ Cardinality(Links(visited)) = Cardinality(DOMAIN visited) - 1
        /\ Connected(DOMAIN visited, Links(visited))
        /\ Acyclic(Links(visited))
        /\ Mirrored(visited)

C15_CarveOneEdge == [][C15_Carves]_vars /\ []C15_Tree

C15_Witness ==
    /\ pc = "loop"
    /\ unvisited # {}
    /\ \E c \in DOMAIN visited : Bits(visited[c]) = 3

(***************************************************************************)
(* C16: a random restart happens only when every neighbour of the current  *)
(* cell inside the grid is visited; it changes the current-cell pointer    *)
(* and nothing else (no mask, neither set), and the cell it ends on is in  *)
(* visited.                                                                *)
(***************************************************************************)
C16_Restarts ==
    /\ (pc = "loop" /\ pc' = "restart") =>
          /\ \A i \in 1..4 :
                Toward(current_cell, exits[i]) \in Grid =>
                    Toward(current_cell, exits[i]) \in DOMAIN visited
          /\ current_cell' = current_cell
    /\ (pc' = "restart" \/ pc = "restart") =>
          /\ visited' = visited
          /\ unvisited' = unvisited
          /\ assigned' = assigned
          /\ pc' \in {"loop", "restart"}
    /\ (pc = "restart" /\ pc' = "loop") =>
          current_cell' \in DOMAIN visited

C16_RestartFrame == [][C16_Restarts]_vars

C16_Witness ==
    /\ pc = "loop"
    /\ current_cell \in Frontier
    /\ Bits(visited[current_cell]) >= 2

(***************************************************************************)
(* C12: a round works from the pre-round view: the cells line 101 zeroes   *)
(* in a round are exactly the cells that had exactly one exit bit set when *)
(* the round began; a cell that began the round with two or more bits is   *)
(* not zeroed in it, whatever the round did to its mask meanwhile.         *)
(***************************************************************************)
C12_Zeroes ==
    (pc = "round" /\ todo' # todo) =>
        \A c \in todo \ todo' :
            (Bits(items[c]) = 1) <=> (visited' # visited /\ visited'[c] = 0)

C12_PreRoundView == [][C12_Zeroes]_vars

(* Lines 97-102 over the pairs of the list its for the cells of left, in   *)
(* one fixed order, on the dict v.                                         *)
RECURSIVE round_in_order(_, _, _)
round_in_order(v, its, left) ==
    IF left = {} THEN v
    ELSE LET c == CHOOSE d \in left : TRUE
         IN round_in_order(one_step(v, its, c), its, left \ {c})

(***************************************************************************)
(* C13: the result of a round does not depend on the order in which the    *)
(* round takes the cells: whatever order it took, the mapping at its end   *)
(* is the one a fixed order gives.                                         *)
(***************************************************************************)
C13_OrderFree ==
    (pc = "round" /\ todo = {}) =>
        visited = round_in_order(items, items, DOMAIN items)

(***************************************************************************)
(* C17: pruning never separates the surviving rooms: after generate() and  *)
(* any number of rounds the cells with a non-zero mask and the corridors   *)
(* between them are one connected, acyclic component, and no corridor      *)
(* leads to a cell with mask 0.                                            *)
(***************************************************************************)
C17_RoomsConnected ==
    pc \in {"generated", "passes", "returned"} =>
        LET Rooms == {c \in DOMAIN visited : visited[c] # 0}
        IN /\ UNION Links(visited) \subseteq Rooms
           /\ Connected(Rooms, Links(visited))
           /\ Acyclic(Links(visited))

(***************************************************************************)
(* C18: sparsify only removes: over a round a mask that was 0 stays 0, no  *)
(* exit bit that was clear becomes set, and the number of cells with a     *)
(* non-zero mask does not grow.                                            *)
(***************************************************************************)
C18_OnlyRemoves ==
    (pc = "round" /\ todo = {}) =>
        /\ \A c \in DOMAIN items : items[c] = 0 => visited[c] = 0
        /\ \A c \in DOMAIN items : \A b \in {1, 2, 4, 8} :
              HasBit(visited[c], b) => HasBit(items[c], b)
        /\ Cardinality({c \in DOMAIN visited : visited[c] # 0})
              <= Cardinality({c \in DOMAIN items : items[c] # 0})

(***************************************************************************)
(* C19: sparsification reaches a fixed point: once width*height rounds     *)
(* have run no cell has exactly one exit bit set, and a further round      *)
(* leaves the mapping as it is.                                            *)
(***************************************************************************)
C19_FixedPoint ==
    (pc \in {"passes", "returned"} /\ total >= width * height) =>
        /\ \A c \in DOMAIN visited : Bits(visited[c]) # 1
        /\ round_in_order(visited, visited, DOMAIN visited) = visited

====
